---- MODULE Spec2Model ----
(***************************************************************************)
(* Model of the IGVC-2023 navigation scripts:                              *)
(*   DepthSensorTests.py          obstacle avoidance, two-threshold variant *)
(*   NewDepthSensorTest.py        obstacle avoidance, one-threshold variant *)
(*   line_det_w_motor_controller.py   lane following with throttled sends   *)
(*                                                                         *)
(* Depths are centimetres.  Time is nanoseconds, as time.time_ns() gives   *)
(* it.  Python's None is the empty sequence and a present value v is <<v>>. *)
(* Pixel columns are 0-based as in the source; row[x + 1] reads column x.  *)
(***************************************************************************)
EXTENDS Integers, Sequences, FiniteSets, TLC

(* ------------------------------------------------------------------ *)
(* Program constants                                                   *)
(* ------------------------------------------------------------------ *)

MIN_THRESHOLD_DISTANCE == 100

MAX_THRESHOLD_DISTANCE == 125

THRESHOLD_DISTANCE == 150

MIN_OBSTACLE_DEPTH == 0

MAX_OBSTACLE_DEPTH == 300

ONE_SECOND_DELAY == 1000000000

\* zigzagDownCorridorTest: while distanceFromStart < 1000
CORRIDOR_DISTANCE == 1000

\* the float not-a-number a depth sample may be; every ordered comparison
\* with it is false (FloatGt, FloatLt), only isnan recognises it
NaN == -1000000

(* ------------------------------------------------------------------ *)
(* Bounds of the model                                                 *)
(* ------------------------------------------------------------------ *)

\* widest frame (pixel columns of the centre row) a maneuver is run on
MaxWidth == 3

\* widest depth profile the locator is applied to on its own
MaxRowWidth == 4

\* longest command log a repeating sender may build
MaxCmds == 8

\* last clock value of a run
MaxClock == 1300000000

\* most execution units multiprocessing.cpu_count() reports
MaxCpu == 2

\* most samples either side's lists of draw_lines hold when it runs on its own
MaxSamples == 31

\* most samples either side's lists hold in a run of the whole frame loop
MaxLoopSamples == 3

(* ------------------------------------------------------------------ *)
(* Input domains                                                       *)
(* ------------------------------------------------------------------ *)

\* raw depth samples of a frame a maneuver grabs: undefined, at and between
\* the thresholds of both variants, at the far bound
FrameDepths == {NaN, 100, 110, 125, 150, 300}

\* raw depth samples of a profile handed to the locator: undefined, below the
\* lower bound, occupied, at the far bound, beyond it
RawDepths == {NaN, -5, 50, 300, 400}

\* advances of the clock between two readings of time.time_ns()
ClockSteps ==
    {0, ONE_SECOND_DELAY \div 20, ONE_SECOND_DELAY \div 10, 3 * (ONE_SECOND_DELAY \div 20)}

\* first-axis translations the positional tracker reports
PoseXs == {-1000, 0, 500, 1000}

None == << >>

Some(v) == <<v>>

(* ------------------------------------------------------------------ *)
(* Signal conditioner                                                  *)
(* ------------------------------------------------------------------ *)

isnan(v) == v = NaN

FloatGt(a, b) == ~isnan(a) /\ ~isnan(b) /\ a > b

FloatLt(a, b) == ~isnan(a) /\ ~isnan(b) /\ a < b

\* seeded fault for C11: an undefined sample passes through unconditioned
clipDataKeepsNaN(data_to_fix, lower_bound, upper_bound) ==
    IF FloatGt(data_to_fix, upper_bound) THEN upper_bound
    ELSE IF FloatLt(data_to_fix, lower_bound) THEN lower_bound
    ELSE data_to_fix

\* seeded fault for C13: an undefined sample is taken for the nearest obstacle
clipDataNaNToLower(data_to_fix, lower_bound, upper_bound) ==
    IF FloatGt(data_to_fix, upper_bound) THEN upper_bound
    ELSE IF FloatLt(data_to_fix, lower_bound) \/ isnan(data_to_fix) THEN lower_bound
    ELSE data_to_fix

clipData(data_to_fix, lower_bound, upper_bound) ==
    IF FloatGt(data_to_fix, upper_bound) \/ isnan(data_to_fix) THEN upper_bound
    ELSE IF FloatLt(data_to_fix, lower_bound) THEN lower_bound
    ELSE data_to_fix

(* ------------------------------------------------------------------ *)
(* Obstacle locator                                                    *)
(* ------------------------------------------------------------------ *)

\* the conditioned depths of the centre row
depthList(row) ==
    [i \in 1..Len(row) |-> clipData(row[i], MIN_OBSTACLE_DEPTH, MAX_OBSTACLE_DEPTH)]

RECURSIVE ScanLeftBoundStrict(_, _)
\* seeded fault for C10: a sample at exactly the far bound ends the scan
ScanLeftBoundStrict(dl, leftBoundX) ==
    IF leftBoundX < Len(dl) /\ dl[leftBoundX + 1] > MAX_OBSTACLE_DEPTH
    THEN ScanLeftBoundStrict(dl, leftBoundX + 1)
    ELSE leftBoundX

RECURSIVE ScanLeftBound(_, _)
\* while leftBoundX < len(depthList) and depthList[leftBoundX] >= MAX: += 1
ScanLeftBound(dl, leftBoundX) ==
    IF leftBoundX < Len(dl) /\ dl[leftBoundX + 1] >= MAX_OBSTACLE_DEPTH
    THEN ScanLeftBound(dl, leftBoundX + 1)
    ELSE leftBoundX

RECURSIVE ScanRightForward(_, _)
\* DepthSensorTests: while rightBoundX < len and depthList[rightBoundX] < MAX: += 1
ScanRightForward(dl, rightBoundX) ==
    IF rightBoundX < Len(dl) /\ dl[rightBoundX + 1] < MAX_OBSTACLE_DEPTH
    THEN ScanRightForward(dl, rightBoundX + 1)
    ELSE rightBoundX

RECURSIVE ScanRightBackward(_, _)
\* NewDepthSensorTest: while rightBoundX >= 0 and depthList[rightBoundX] >= MAX: -= 1
ScanRightBackward(dl, rightBoundX) ==
    IF rightBoundX >= 0 /\ dl[rightBoundX + 1] >= MAX_OBSTACLE_DEPTH
    THEN ScanRightBackward(dl, rightBoundX - 1)
    ELSE rightBoundX

\* the region found: the scan's locals and the returned centre column
Region(l, r) ==
    [leftBoundX |-> l, rightBoundX |-> r, centerOfObstacleX |-> (l + r) \div 2]

\* DepthSensorTests.getCoordinatesOfCloseObstacle
getCoordinatesOfCloseObstacle(row) ==
    LET dl == depthList(row)
        leftBoundX == ScanLeftBound(dl, 0)
    IN  IF leftBoundX >= Len(dl) THEN None
        ELSE Some(Region(leftBoundX, ScanRightForward(dl, leftBoundX + 1)))

\* NewDepthSensorTest.getCoordinatesOfCloseObstacle
getCoordinatesOfCloseObstacleNew(row) ==
    LET dl == depthList(row)
        leftBoundX == ScanLeftBound(dl, 0)
    IN  IF leftBoundX >= Len(dl) THEN None
        ELSE Some(Region(leftBoundX, ScanRightBackward(dl, Len(dl) - 1)))

\* seeded fault for C26: without a region the depth is sampled at column 0
SampleObstacleAtLeftEdge(row, coords) ==
    LET x == IF coords = None THEN 0
             ELSE coords[1].centerOfObstacleX
    IN  [depthValue |-> clipData(row[x + 1], MIN_OBSTACLE_DEPTH, MAX_OBSTACLE_DEPTH),
         x |-> x,
         found |-> coords # None]

\* what both variants do with a successfully grabbed frame: locate, fall back
\* to the frame centre, re-sample the depth there and condition it
SampleObstacle(row, coords) ==
    LET x == IF coords = None THEN Len(row) \div 2
             ELSE coords[1].centerOfObstacleX
    IN  [depthValue |-> clipData(row[x + 1], MIN_OBSTACLE_DEPTH, MAX_OBSTACLE_DEPTH),
         x |-> x,
         found |-> coords # None]

(* ------------------------------------------------------------------ *)
(* State                                                               *)
(* ------------------------------------------------------------------ *)

VARIABLES
    script,                 \* which file runs
    test,                   \* the test function __main__ calls
    motor,                  \* "None" or "MotorController"
    width,                  \* pixel columns of a retrieved image
    cpuCount,               \* multiprocessing.cpu_count()
    pc,                     \* position of the foreground code
    err,                    \* the exception that ended the run, or "none"
    cmds,                   \* commands the actuator received, in order
    depthValue,             \* the loop's depthValue
    x,                      \* the loop's x
    imageWidth,             \* leftImage.get_width(): 0 until an image is retrieved
    found,                  \* the last grabbed frame had a region (obstacleCoordinates is not None)
    grabbed,                \* the last iteration's grab succeeded
    obstacleX,              \* obstacleX of the steer tests
    turn,                   \* direction the steer tests chose ("Robot turning ...")
    clock,                  \* last value time.time_ns() returned
    initialTime,            \* time the throttle last recorded
    attempt,                \* the last throttled send attempt: what it read and did
    sentAt,                 \* times at which throttled attempts of this run sent
    initialTranslationData, \* zigzagDownCorridorTest: first axis of the start pose
    distanceFromStart,      \* zigzagDownCorridorTest
    event,                  \* multiprocessing.Event
    bgpc,                   \* position of the moveForwardUntilSignaled process
    profile,                \* a depth profile handed to the locator
    region,                 \* what the locator returned for it
    data_to_fix,            \* clipData's arguments in a call of its own
    lower_bound,
    upper_bound,
    clipped,                \* what clipData returned, call after call
    direction,              \* hough_lines: direction
    rightSlope,             \* the module-level lists of draw_lines
    leftSlope,
    rightIntercept,
    leftIntercept,
    lines,                  \* the lines handed to the last draw_lines call
    averaged,               \* the slices the last draw_lines call took the means of
    coors,                  \* what the last draw_lines call returned
    view,                   \* the lines the line detector finds in the camera's view
    switched                \* the view has changed since the run began

cfgVars == <<script, test, motor, width, cpuCount>>

senseVars == <<depthValue, x, imageWidth, found, grabbed>>

steerVars == <<obstacleX, turn>>

timeVars == <<clock, initialTime, attempt, sentAt>>

poseVars == <<initialTranslationData, distanceFromStart>>

dualVars == <<event, bgpc>>

pureVars == <<profile, region, data_to_fix, lower_bound, upper_bound, clipped>>

bufferVars == <<rightSlope, leftSlope, rightIntercept, leftIntercept>>

laneVars == <<direction, bufferVars, lines, averaged, coors, view, switched>>

vars == <<cfgVars, pc, err, cmds, senseVars, steerVars, timeVars, poseVars,
          dualVars, pureVars, laneVars>>

Old == "DepthSensorTests"

New == "NewDepthSensorTest"

Lane == "line_det_w_motor_controller"

\* no throttled attempt yet: count is the number of attempts capped at 2, seq
\* flips at every attempt, firstSent tells whether the run's first attempt
\* sent and firstAt when it was made
NoAttempt ==
    [last |-> 0, now |-> 0, sent |-> FALSE, after |-> 0,
     count |-> 0, seq |-> 0, firstSent |-> FALSE, firstAt |-> 0]

\* no draw_lines call yet
NoSlices ==
    [leftSlope |-> << >>, leftIntercept |-> << >>,
     rightSlope |-> << >>, rightIntercept |-> << >>]

\* every variable at the value it has before the program starts
Idle ==
    /\ pc = "start" /\ err = "none" /\ cmds = << >>
    /\ depthValue = None /\ x = 0 /\ imageWidth = 0
    /\ found = FALSE /\ grabbed = FALSE
    /\ obstacleX = 0 /\ turn = "none"
    /\ clock = ONE_SECOND_DELAY /\ initialTime = 0
    /\ attempt = NoAttempt /\ sentAt = << >>
    /\ initialTranslationData = None /\ distanceFromStart = 0
    /\ event = FALSE /\ bgpc = "notStarted"
    /\ region = None
    /\ clipped = << >>
    /\ direction = "up"
    /\ rightSlope = << >> /\ leftSlope = << >>
    /\ rightIntercept = << >> /\ leftIntercept = << >>
    /\ lines = None
    /\ averaged = NoSlices
    /\ coors = <<None, None>>
    /\ switched = FALSE

\* clipData is not called on its own
NoClipCall ==
    /\ data_to_fix = 0
    /\ lower_bound = MIN_OBSTACLE_DEPTH
    /\ upper_bound = MAX_OBSTACLE_DEPTH

Rows(w) == [1..w -> FrameDepths]

(* ------------------------------------------------------------------ *)
(* The actuator                                                        *)
(* ------------------------------------------------------------------ *)

\* if motor is not None: motor.<command>(...)
SendIfMotor(log, command) ==
    IF motor = "None" THEN log ELSE Append(log, command)

\* raise: the run ends where it stands
Raise(exception) ==
    /\ pc' = "raised"
    /\ err' = exception

(* ------------------------------------------------------------------ *)
(* Frame loops of DepthSensorTests.py                                  *)
(* ------------------------------------------------------------------ *)

\* seeded fault for C1: the approach loop tests against the clear threshold
captureImagesUntilCloseToObstacle_ContinuesAboveHigh(dv) ==
    IF dv = None THEN TRUE ELSE dv[1] > MAX_THRESHOLD_DISTANCE

\* captureImagesUntilCloseToObstacle: while depthValue is None or depthValue > MIN
captureImagesUntilCloseToObstacle_Continues(dv) ==
    IF dv = None THEN TRUE ELSE dv[1] > MIN_THRESHOLD_DISTANCE

\* seeded fault for C2: the clear loop keeps turning at exactly the threshold
captureImagesUntilClear_ContinuesAtHigh(dv) ==
    IF dv = None THEN TRUE ELSE dv[1] <= MAX_THRESHOLD_DISTANCE

\* captureImagesUntilClear: while depthValue is None or depthValue < MAX
captureImagesUntilClear_Continues(dv) ==
    IF dv = None THEN TRUE ELSE dv[1] < MAX_THRESHOLD_DISTANCE

\* the locals both loops set up before their while
EnterLoop(first) ==
    /\ depthValue' = first
    /\ x' = 0
    /\ imageWidth' = 0
    /\ found' = FALSE
    /\ grabbed' = FALSE

\* captureImageAndCheckForObstacle on a failed grab: (None, width/2, height/2)
captureImageAndCheckForObstacle_Failed(keepX) ==
    /\ depthValue' = None
    /\ x' = IF keepX THEN x ELSE imageWidth \div 2
    /\ found' = FALSE
    /\ grabbed' = FALSE
    /\ UNCHANGED imageWidth

\* captureImageAndCheckForObstacle on a grabbed frame
captureImageAndCheckForObstacle_Grabbed(row, keepX) ==
    LET s == SampleObstacle(row, getCoordinatesOfCloseObstacle(row))
    IN  /\ depthValue' = Some(s.depthValue)
        /\ x' = IF keepX THEN x ELSE s.x
        /\ imageWidth' = Len(row)
        /\ found' = s.found
        /\ grabbed' = TRUE

\* one iteration of captureImagesUntilCloseToObstacle
OldCloseIter ==
    /\ script = Old
    /\ pc \in {"advance1", "advance2"}
    /\ captureImagesUntilCloseToObstacle_Continues(depthValue)
    /\ \/ captureImageAndCheckForObstacle_Failed(FALSE)
       \/ \E row \in Rows(width) : captureImageAndCheckForObstacle_Grabbed(row, FALSE)
    /\ UNCHANGED <<cfgVars, pc, err, cmds, steerVars, timeVars, poseVars,
                   dualVars, pureVars, laneVars>>

\* one iteration of captureImagesUntilClear, which keeps only the depth
OldClearIter ==
    /\ script = Old
    /\ pc = "clear"
    /\ captureImagesUntilClear_Continues(depthValue)
    /\ \/ captureImageAndCheckForObstacle_Failed(TRUE)
       \/ \E row \in Rows(width) : captureImageAndCheckForObstacle_Grabbed(row, TRUE)
    /\ UNCHANGED <<cfgVars, pc, err, cmds, steerVars, timeVars, poseVars,
                   dualVars, pureVars, laneVars>>

(* ------------------------------------------------------------------ *)
(* turnLeftAndStopTest, turnRightAndStopTest (both files)              *)
(* ------------------------------------------------------------------ *)

TurnCommand(t) == IF t = "turnLeftAndStopTest" THEN "turnLeft" ELSE "turnRight"

\* the depthValue captureImagesUntilClear starts from
ClearFirst == IF script = Old THEN None ELSE Some(THRESHOLD_DISTANCE - 10)

\* the depthValue captureImagesUntilCloseToObstacle starts from
CloseFirst == IF script = Old THEN None ELSE Some(THRESHOLD_DISTANCE + 10)

turnAndStopTest_Start ==
    /\ test \in {"turnLeftAndStopTest", "turnRightAndStopTest"}
    /\ pc = "start"
    /\ cmds' = SendIfMotor(cmds, TurnCommand(test))
    /\ EnterLoop(ClearFirst)
    /\ pc' = "clear"
    /\ UNCHANGED <<cfgVars, err, steerVars, timeVars, poseVars, dualVars,
                   pureVars, laneVars>>

\* the loop of either file's captureImagesUntilClear has ended: motor.stop()
turnAndStopTest_Finish ==
    /\ test \in {"turnLeftAndStopTest", "turnRightAndStopTest"}
    /\ pc = "clear"
    /\ IF script = Old
       THEN ~captureImagesUntilClear_Continues(depthValue)
       ELSE ~(depthValue[1] < THRESHOLD_DISTANCE)
    /\ cmds' = SendIfMotor(cmds, "stop")
    /\ pc' = "done"
    /\ UNCHANGED <<cfgVars, err, senseVars, steerVars, timeVars, poseVars,
                   dualVars, pureVars, laneVars>>

(* ------------------------------------------------------------------ *)
(* steerAwayFromObstacleTest and zigzagDownCorridorTest                *)
(* ------------------------------------------------------------------ *)

SteerTests == {"steerAwayFromObstacleTest", "zigzagDownCorridorTest"}

\* steerAwayFromObstacleTest: motor.forward, then captureImagesUntilCloseToObstacle
steerAwayFromObstacleTest_Start ==
    /\ test = "steerAwayFromObstacleTest"
    /\ pc = "start"
    /\ cmds' = SendIfMotor(cmds, "forward")
    /\ EnterLoop(None)
    /\ pc' = "advance1"
    /\ UNCHANGED <<cfgVars, err, steerVars, timeVars, poseVars, dualVars,
                   pureVars, laneVars>>

\* captureImagesUntilCloseToObstacle returns x, y, leftImage; motor.stop()
steer_StopWhenClose ==
    /\ test \in SteerTests
    /\ pc = "advance1"
    /\ ~captureImagesUntilCloseToObstacle_Continues(depthValue)
    /\ obstacleX' = x
    /\ cmds' = SendIfMotor(cmds, "stop")
    /\ pc' = "choose"
    /\ UNCHANGED <<cfgVars, err, senseVars, turn, timeVars, poseVars, dualVars,
                   pureVars, laneVars>>

\* seeded fault for C9: an obstacle exactly at the midpoint counts as left
ObstacleOnLeftOrCentre(obsX, imgWidth) == 2 * obsX <= imgWidth

\* centerX = imageWithCloseObstacle.get_width() / 2; obstacleX < centerX
ObstacleOnLeft(obsX, imgWidth) == 2 * obsX < imgWidth

\* "Robot turning right" when the obstacle is on the left, else "left"
ChosenTurn(obsX, imgWidth) ==
    IF ObstacleOnLeft(obsX, imgWidth) THEN "right" ELSE "left"

\* seeded fault for C23: the turn commands are swapped
TurnCommandOfSwapped(t) == IF t = "right" THEN "turnLeft" ELSE "turnRight"

TurnCommandOf(t) == IF t = "right" THEN "turnRight" ELSE "turnLeft"

\* chooses the direction, sends the turn, then captureImagesUntilClear starts
steer_ChooseTurn ==
    /\ test \in SteerTests
    /\ pc = "choose"
    /\ turn' = ChosenTurn(obstacleX, imageWidth)
    /\ cmds' = SendIfMotor(cmds, TurnCommandOf(turn'))
    /\ EnterLoop(None)
    /\ pc' = "clear"
    /\ UNCHANGED <<cfgVars, err, obstacleX, timeVars, poseVars, dualVars,
                   pureVars, laneVars>>

\* steerAwayFromObstacleTest after captureImagesUntilClear: stop, forward, and
\* captureImagesUntilCloseToObstacle again
steerAwayFromObstacleTest_StopWhenClear ==
    /\ test = "steerAwayFromObstacleTest"
    /\ pc = "clear"
    /\ ~captureImagesUntilClear_Continues(depthValue)
    /\ cmds' = SendIfMotor(SendIfMotor(cmds, "stop"), "forward")
    /\ EnterLoop(None)
    /\ pc' = "advance2"
    /\ UNCHANGED <<cfgVars, err, steerVars, timeVars, poseVars, dualVars,
                   pureVars, laneVars>>

\* the second captureImagesUntilCloseToObstacle has returned: motor.stop()
steerAwayFromObstacleTest_Finish ==
    /\ test = "steerAwayFromObstacleTest"
    /\ pc = "advance2"
    /\ ~captureImagesUntilCloseToObstacle_Continues(depthValue)
    /\ cmds' = SendIfMotor(cmds, "stop")
    /\ pc' = "done"
    /\ UNCHANGED <<cfgVars, err, senseVars, steerVars, timeVars, poseVars,
                   dualVars, pureVars, laneVars>>

\* zed.enable_positional_tracking failed: exit(1)
zigzagDownCorridorTest_NoTracking ==
    /\ test = "zigzagDownCorridorTest"
    /\ pc = "start"
    /\ pc' = "exited"
    /\ UNCHANGED <<cfgVars, err, cmds, senseVars, steerVars, timeVars, poseVars,
                   dualVars, pureVars, laneVars>>

\* gets the initial pose: initialTranslationData stays None when the grab fails
zigzagDownCorridorTest_Start ==
    /\ test = "zigzagDownCorridorTest"
    /\ pc = "start"
    /\ \/ initialTranslationData' = None
       \/ \E p \in PoseXs : initialTranslationData' = Some(p)
    /\ distanceFromStart' = 0
    /\ pc' = "loop"
    /\ UNCHANGED <<cfgVars, err, cmds, senseVars, steerVars, timeVars, dualVars,
                   pureVars, laneVars>>

\* seeded fault for C19: the loop goes on at exactly the distance bound
zigzagDownCorridorTest_ContinuesAtBound(distance) == distance <= CORRIDOR_DISTANCE

\* while distanceFromStart < 1000
zigzagDownCorridorTest_Continues(distance) == distance < CORRIDOR_DISTANCE

\* the head of the while loop: another iteration, or the test returns
zigzagDownCorridorTest_Loop ==
    /\ test = "zigzagDownCorridorTest"
    /\ pc = "loop"
    /\ IF zigzagDownCorridorTest_Continues(distanceFromStart)
       THEN /\ Len(cmds) < MaxCmds
            /\ cmds' = SendIfMotor(cmds, "forward")
            /\ EnterLoop(None)
            /\ pc' = "advance1"
       ELSE /\ pc' = "done"
            /\ UNCHANGED <<cmds, senseVars>>
    /\ UNCHANGED <<cfgVars, err, steerVars, timeVars, poseVars, dualVars,
                   pureVars, laneVars>>

Abs(n) == IF n < 0 THEN -n ELSE n

\* zigzagDownCorridorTest after captureImagesUntilClear: stop, then the pose
\* grab that updates distanceFromStart; initialTranslationData[0] raises
\* TypeError when initialTranslationData is None
zigzagDownCorridorTest_StopWhenClear ==
    /\ test = "zigzagDownCorridorTest"
    /\ pc = "clear"
    /\ ~captureImagesUntilClear_Continues(depthValue)
    /\ cmds' = SendIfMotor(cmds, "stop")
    /\ \/ /\ pc' = "loop"
          /\ UNCHANGED <<err, distanceFromStart>>
       \/ \E current \in PoseXs :
            IF initialTranslationData = None
            THEN /\ Raise("TypeError")
                 /\ UNCHANGED distanceFromStart
            ELSE /\ distanceFromStart' = Abs(initialTranslationData[1] - current)
                 /\ pc' = "loop"
                 /\ UNCHANGED err
    /\ UNCHANGED <<cfgVars, senseVars, steerVars, timeVars,
                   initialTranslationData, dualVars, pureVars, laneVars>>

(* ------------------------------------------------------------------ *)
(* Frame loops and moveForwardAndStopTest of NewDepthSensorTest.py     *)
(* ------------------------------------------------------------------ *)

\* while depthValue > THRESHOLD_DISTANCE
captureImagesUntilCloseToObstacleNew_Continues(dv) == dv[1] > THRESHOLD_DISTANCE

\* while depthValue < THRESHOLD_DISTANCE
captureImagesUntilClearNew_Continues(dv) == dv[1] < THRESHOLD_DISTANCE

\* seeded fault for C5: the throttle opens at exactly the interval
captureImagesUntilCloseToObstacleNew_MaySendAtInterval(now, last) ==
    now >= last + (ONE_SECOND_DELAY \div 10)

\* time.time_ns() > initialTime + (ONE_SECOND_DELAY*0.1)
captureImagesUntilCloseToObstacleNew_MaySend(now, last) ==
    now > last + (ONE_SECOND_DELAY \div 10)

\* the body of either loop after the throttle: a failed grab changes nothing
NewGrab ==
    \/ /\ grabbed' = FALSE
       /\ found' = FALSE
       /\ UNCHANGED <<depthValue, x, imageWidth>>
    \/ \E row \in Rows(width) :
         LET s == SampleObstacle(row, getCoordinatesOfCloseObstacleNew(row))
         IN  /\ depthValue' = Some(s.depthValue)
             /\ x' = s.x
             /\ imageWidth' = Len(row)
             /\ found' = s.found
             /\ grabbed' = TRUE

\* the record of a throttled attempt: the lastSentAt it was given, the time it
\* compared, whether it sent, and the lastSentAt it left
Attempted(last, now, sent, after) ==
    [last |-> last, now |-> now, sent |-> sent, after |-> after,
     count |-> IF attempt.count < 2 THEN attempt.count + 1 ELSE 2,
     seq |-> 1 - attempt.seq,
     firstSent |-> IF attempt.count = 0 THEN sent ELSE attempt.firstSent,
     firstAt |-> IF attempt.count = 0 THEN now ELSE attempt.firstAt]

\* one iteration of captureImagesUntilCloseToObstacle(zed, motors): the
\* throttled motors.forward(20), which raises AttributeError on None, then the grab
NewCloseIter ==
    /\ script = New
    /\ pc = "advance1"
    /\ captureImagesUntilCloseToObstacleNew_Continues(depthValue)
    /\ \E d1 \in ClockSteps :
         LET now == clock + d1
         IN  /\ now <= MaxClock
             /\ IF captureImagesUntilCloseToObstacleNew_MaySend(now, initialTime)
                THEN IF motor = "None"
                     THEN /\ Raise("AttributeError")
                          /\ clock' = now
                          /\ UNCHANGED <<cmds, senseVars, initialTime, attempt, sentAt>>
                     ELSE \E d2 \in ClockSteps :
                            /\ now + d2 <= MaxClock
                            /\ cmds' = Append(cmds, "forward")
                            /\ clock' = now + d2
                            /\ initialTime' = now + d2
                            /\ attempt' = Attempted(initialTime, now, TRUE, now + d2)
                            /\ sentAt' = Append(sentAt, now)
                            /\ NewGrab
                            /\ UNCHANGED <<pc, err>>
                ELSE /\ clock' = now
                     /\ attempt' = Attempted(initialTime, now, FALSE, initialTime)
                     /\ NewGrab
                     /\ UNCHANGED <<pc, err, cmds, initialTime, sentAt>>
    /\ UNCHANGED <<cfgVars, steerVars, poseVars, dualVars, pureVars, laneVars>>

\* one iteration of NewDepthSensorTest's captureImagesUntilClear
NewClearIter ==
    /\ script = New
    /\ pc = "clear"
    /\ captureImagesUntilClearNew_Continues(depthValue)
    /\ NewGrab
    /\ UNCHANGED <<cfgVars, pc, err, cmds, steerVars, timeVars, poseVars,
                   dualVars, pureVars, laneVars>>

\* NewDepthSensorTest.moveForwardAndStopTest up to its loop
moveForwardAndStopTestNew_Start ==
    /\ script = New
    /\ test = "moveForwardAndStopTest"
    /\ pc = "start"
    /\ cmds' = SendIfMotor(cmds, "forward")
    /\ EnterLoop(CloseFirst)
    /\ initialTime' = 0
    /\ pc' = "advance1"
    /\ UNCHANGED <<cfgVars, err, steerVars, clock, attempt, sentAt, poseVars,
                   dualVars, pureVars, laneVars>>

\* after the loop: four unguarded motor.backward(20), then the guarded stop
moveForwardAndStopTestNew_Finish ==
    /\ script = New
    /\ test = "moveForwardAndStopTest"
    /\ pc = "advance1"
    /\ ~captureImagesUntilCloseToObstacleNew_Continues(depthValue)
    /\ IF motor = "None"
       THEN /\ Raise("AttributeError")
            /\ UNCHANGED cmds
       ELSE /\ cmds' = cmds \o <<"backward", "backward", "backward", "backward", "stop">>
            /\ pc' = "done"
            /\ UNCHANGED err
    /\ UNCHANGED <<cfgVars, senseVars, steerVars, timeVars, poseVars, dualVars,
                   pureVars, laneVars>>

(* ------------------------------------------------------------------ *)
(* The obstacle-avoidance tests, run one at a time                     *)
(* ------------------------------------------------------------------ *)

TestsOf(s) ==
    IF s = Old
    THEN {"turnLeftAndStopTest", "turnRightAndStopTest",
          "steerAwayFromObstacleTest", "zigzagDownCorridorTest"}
    ELSE {"moveForwardAndStopTest", "turnLeftAndStopTest", "turnRightAndStopTest"}

Init ==
    /\ script \in {Old, New}
    /\ test \in TestsOf(script)
    /\ motor \in {"None", "MotorController"}
    /\ width \in 1..MaxWidth
    /\ cpuCount = 1
    /\ profile = << >>
    /\ view = None
    /\ NoClipCall
    /\ Idle

OldNext ==
    \/ OldCloseIter
    \/ OldClearIter
    \/ steerAwayFromObstacleTest_Start
    \/ steer_StopWhenClose
    \/ steer_ChooseTurn
    \/ steerAwayFromObstacleTest_StopWhenClear
    \/ steerAwayFromObstacleTest_Finish
    \/ zigzagDownCorridorTest_NoTracking
    \/ zigzagDownCorridorTest_Start
    \/ zigzagDownCorridorTest_Loop
    \/ zigzagDownCorridorTest_StopWhenClear

NewNext ==
    \/ NewCloseIter
    \/ NewClearIter
    \/ moveForwardAndStopTestNew_Start
    \/ moveForwardAndStopTestNew_Finish

Next ==
    \/ turnAndStopTest_Start
    \/ turnAndStopTest_Finish
    \/ OldNext
    \/ NewNext

Spec == Init /\ [][Next]_vars

(* ------------------------------------------------------------------ *)
(* Claims about the obstacle-avoidance tests (Spec)                    *)
(* ------------------------------------------------------------------ *)

InCloseLoop == pc \in {"advance1", "advance2"}

\* the frame the loop last looked at was grabbed in this invocation and its
\* obstacle depth is at most / at least t
FrameAtMost(t) == grabbed /\ depthValue # None /\ depthValue[1] <= t

FrameAtLeast(t) == grabbed /\ depthValue # None /\ depthValue[1] >= t

\* C1: in DepthSensorTests, captureImagesUntilCloseToObstacle leaves its loop
\* only on a frame grabbed in this invocation whose obstacle depth is <= 100
\* (so never on a failed grab, nor on a depth between 100 and 125), and once
\* such a frame is grabbed no further iteration runs: the next step is the exit.
C1_StopAtFirstCloseFrame ==
    [][script = Old =>
         /\ (InCloseLoop /\ pc' # pc) => FrameAtMost(MIN_THRESHOLD_DISTANCE)
         /\ (InCloseLoop /\ FrameAtMost(MIN_THRESHOLD_DISTANCE)) => pc' # pc]_vars

\* C1 witness: the loop has just fired on a frame at exactly 100 cm
C1_Witness ==
    /\ script = Old
    /\ test = "steerAwayFromObstacleTest"
    /\ pc = "choose"
    /\ grabbed
    /\ depthValue = Some(MIN_THRESHOLD_DISTANCE)

\* C2: in DepthSensorTests, captureImagesUntilClear leaves its loop only on a
\* frame grabbed in this invocation whose obstacle depth is >= 125, and once
\* such a frame is grabbed the next step is the exit.
C2_GoAtFirstClearFrame ==
    [][script = Old =>
         /\ (pc = "clear" /\ pc' # pc) => FrameAtLeast(MAX_THRESHOLD_DISTANCE)
         /\ (pc = "clear" /\ FrameAtLeast(MAX_THRESHOLD_DISTANCE)) => pc' # pc]_vars

\* C2 witness: a turn test has finished on a frame at exactly 125 cm
C2_Witness ==
    /\ script = Old
    /\ test = "turnLeftAndStopTest"
    /\ pc = "done"
    /\ grabbed
    /\ depthValue = Some(MAX_THRESHOLD_DISTANCE)

\* the running file's approach loop ends on depth d / its clear loop ends on d
StopFires(d) ==
    IF script = Old
    THEN ~captureImagesUntilCloseToObstacle_Continues(Some(d))
    ELSE ~captureImagesUntilCloseToObstacleNew_Continues(Some(d))

GoFires(d) ==
    IF script = Old
    THEN ~captureImagesUntilClear_Continues(Some(d))
    ELSE ~captureImagesUntilClearNew_Continues(Some(d))

\* an approach loop / a clear loop has just ended on the frame in depthValue
StopFired ==
    /\ grabbed
    /\ \/ test \in SteerTests /\ pc = "choose"
       \/ test \in {"steerAwayFromObstacleTest", "moveForwardAndStopTest"} /\ pc = "done"

GoFired ==
    /\ grabbed
    /\ test \in {"turnLeftAndStopTest", "turnRightAndStopTest"}
    /\ pc = "done"

\* C3: in either file, the depth on which the approach loop fired its
\* stop-signal is not one on which the clear loop fires its go-signal, and the
\* depth on which the clear loop fired is not one on which the approach loop
\* fires: no depth fires both.
C3_NoDepthFiresBoth ==
    /\ StopFired => ~GoFires(depthValue[1])
    /\ GoFired => ~StopFires(depthValue[1])

\* C7: after a failed pose grab at the start of zigzagDownCorridorTest the
\* maneuver is not aborted by an exception.
C7_FailedGrabNeverAborts ==
    (test = "zigzagDownCorridorTest" /\ pc # "start" /\ initialTranslationData = None)
        => pc # "raised"

\* C8: with no actuator configured nothing raises and no command is sent.
C8_NoMotorNoErrorNoCommand ==
    motor = "None" => (err = "none" /\ cmds = << >>)

TurnCommands(log) ==
    Cardinality({i \in 1..Len(log) : log[i] \in {"turnLeft", "turnRight"}})

\* C9: once the steer tests have chosen, the turn is right exactly when
\* obstacleX is strictly left of half the frame width and left exactly when it
\* is at or right of it; with an actuator the command sent last is that turn,
\* directly after the stop, and steerAwayFromObstacleTest sends one turn in all.
C9_TurnAwayFromObstacle ==
    (test \in SteerTests /\ pc = "clear") =>
        /\ turn \in {"left", "right"}
        /\ (turn = "right") <=> (2 * obstacleX < width)
        /\ (turn = "left") <=> (2 * obstacleX >= width)
        /\ motor # "None" =>
             /\ Len(cmds) >= 2
             /\ cmds[Len(cmds)] = (IF turn = "right" THEN "turnRight" ELSE "turnLeft")
             /\ cmds[Len(cmds) - 1] = "stop"
             /\ test = "steerAwayFromObstacleTest" => TurnCommands(cmds) = 1

\* C9 witness: the obstacle sat exactly on the midpoint and the robot turns left
C9_Witness ==
    /\ test = "steerAwayFromObstacleTest"
    /\ pc = "clear"
    /\ motor # "None"
    /\ 2 * obstacleX = width
    /\ turn = "left"
    /\ cmds = <<"forward", "stop", "turnLeft">>

\* C19: zigzagDownCorridorTest starts a steer iteration only with the last
\* measured distanceFromStart below 1000, changes distanceFromStart only at
\* the pose grab that follows the iteration's last stop, returns at the head
\* of the loop once distanceFromStart >= 1000, and when it has ended (returned
\* or raised) the last command it sent, if any, is stop.
C19_CorridorBoundEndsOnStop ==
    [][test = "zigzagDownCorridorTest" =>
         /\ (pc = "loop" /\ pc' = "advance1") => distanceFromStart < CORRIDOR_DISTANCE
         /\ (pc = "loop" /\ distanceFromStart >= CORRIDOR_DISTANCE) => pc' = "done"
         /\ distanceFromStart' # distanceFromStart =>
              (pc = "clear" /\ pc' = "loop" /\ cmds' = SendIfMotor(cmds, "stop"))
         /\ pc' = "done" =>
              /\ pc = "loop"
              /\ distanceFromStart >= CORRIDOR_DISTANCE
              /\ motor # "None" => (cmds' # << >> /\ cmds'[Len(cmds')] = "stop")
         /\ (pc' = "raised" /\ cmds' # << >>) => cmds'[Len(cmds')] = "stop"]_vars

\* C19 witness: a second iteration was started with a measured displacement
\* below the bound, the next measurement reached it, and the test returned
\* with stop the last of its eight commands
C19_Witness ==
    /\ test = "zigzagDownCorridorTest"
    /\ pc = "done"
    /\ distanceFromStart = CORRIDOR_DISTANCE
    /\ Len(cmds) = 8
    /\ cmds[5] = "forward"
    /\ cmds[8] = "stop"

(* ------------------------------------------------------------------ *)
(* The locator on its own (SpecLocate)                                 *)
(* ------------------------------------------------------------------ *)

Profiles ==
    UNION {[1..w -> RawDepths] : w \in 0..MaxRowWidth}

InitLocate ==
    /\ script \in {Old, New}
    /\ test = "getCoordinatesOfCloseObstacle"
    /\ motor = "None"
    /\ width = 0
    /\ cpuCount = 1
    /\ profile \in Profiles
    /\ view = None
    /\ NoClipCall
    /\ Idle

\* DepthSensorTests.getCoordinatesOfCloseObstacle applied to the profile
Locate ==
    /\ script = Old
    /\ pc = "start"
    /\ region' = getCoordinatesOfCloseObstacle(profile)
    /\ pc' = "located"
    /\ UNCHANGED <<cfgVars, err, cmds, senseVars, steerVars, timeVars, poseVars,
                   dualVars, profile, data_to_fix, lower_bound, upper_bound,
                   clipped, laneVars>>

\* NewDepthSensorTest.getCoordinatesOfCloseObstacle applied to the profile
LocateNew ==
    /\ script = New
    /\ pc = "start"
    /\ region' = getCoordinatesOfCloseObstacleNew(profile)
    /\ pc' = "located"
    /\ UNCHANGED <<cfgVars, err, cmds, senseVars, steerVars, timeVars, poseVars,
                   dualVars, profile, data_to_fix, lower_bound, upper_bound,
                   clipped, laneVars>>

\* what both files do with the locator's result on a retrieved image: fall back
\* to the frame centre, re-sample the depth at x and condition it
captureImageAndCheckForObstacle_Sample ==
    /\ pc = "located"
    /\ Len(profile) > 0
    /\ LET s == SampleObstacle(profile, region)
       IN  /\ depthValue' = Some(s.depthValue)
           /\ x' = s.x
           /\ found' = s.found
    /\ imageWidth' = Len(profile)
    /\ grabbed' = TRUE
    /\ pc' = "sampled"
    /\ UNCHANGED <<cfgVars, err, cmds, steerVars, timeVars, poseVars, dualVars,
                   pureVars, laneVars>>

NextLocate ==
    \/ Locate
    \/ LocateNew
    \/ captureImageAndCheckForObstacle_Sample

SpecLocate == InitLocate /\ [][NextLocate]_vars

\* the columns (0-based) whose conditioned depth is below the far bound
Occupied(row) ==
    {i \in 0..(Len(row) - 1) :
        clipData(row[i + 1], MIN_OBSTACLE_DEPTH, MAX_OBSTACLE_DEPTH) < MAX_OBSTACLE_DEPTH}

SetMin(S) == CHOOSE m \in S : \A n \in S : m <= n

\* C10: in both files the locator returns None exactly when every conditioned
\* depth of the row is >= MAX_OBSTACLE_DEPTH, and otherwise its leftBoundX is
\* the smallest column whose conditioned depth is below MAX_OBSTACLE_DEPTH.
C10_NoneIffAllClear ==
    pc = "located" =>
        /\ (region = None) <=> (Occupied(profile) = {})
        /\ region # None => region[1].leftBoundX = SetMin(Occupied(profile))

\* C10 witness: a region found behind two clear columns, the second of them
\* an undefined sample
C10_Witness ==
    /\ pc = "located"
    /\ Len(profile) >= 3
    /\ profile[2] = NaN
    /\ region # None
    /\ region[1].leftBoundX = 2

\* C11: whenever the locator of either file finds a region, leftBoundX <=
\* centerOfObstacleX <= rightBoundX, centerOfObstacleX is a column of the
\* profile, and the depth then sampled there and conditioned lies within
\* [MIN_OBSTACLE_DEPTH, MAX_OBSTACLE_DEPTH].
C11_CentreWithinRegionDepthWithinBounds ==
    (pc \in {"located", "sampled"} /\ region # None) =>
        /\ region[1].leftBoundX <= region[1].centerOfObstacleX
        /\ region[1].centerOfObstacleX <= region[1].rightBoundX
        /\ region[1].centerOfObstacleX \in 0..(Len(profile) - 1)
        /\ pc = "sampled" =>
             /\ x = region[1].centerOfObstacleX
             /\ depthValue[1] >= MIN_OBSTACLE_DEPTH
             /\ depthValue[1] <= MAX_OBSTACLE_DEPTH

\* C11 witness: DepthSensorTests finds a region in the last column, behind an
\* undefined sample, and the depth sampled at its centre is below the lower
\* bound before conditioning
C11_Witness ==
    /\ script = Old
    /\ pc = "sampled"
    /\ profile = <<NaN, 400, -5>>
    /\ region # None
    /\ region[1].leftBoundX = 2
    /\ region[1].rightBoundX = 3
    /\ x = 2
    /\ depthValue = Some(MIN_OBSTACLE_DEPTH)

SetMax(S) == CHOOSE m \in S : \A n \in S : m >= n

\* the occupied columns of the row form one run without a gap
OneRun(row) ==
    /\ Occupied(row) # {}
    /\ Occupied(row) = SetMin(Occupied(row))..SetMax(Occupied(row))

\* C12: for a profile whose occupied columns form one contiguous run a..b, the
\* locator of either file returns rightBoundX = b and centerOfObstacleX =
\* floor((a + b) / 2): one occupied column gives leftBoundX = rightBoundX, an
\* even-width run gives the left of its two middle columns.
C12_CentreIsFloorOfRunMiddle ==
    (pc \in {"located", "sampled"} /\ OneRun(profile)) =>
        /\ region # None
        /\ region[1].rightBoundX = SetMax(Occupied(profile))
        /\ region[1].centerOfObstacleX =
             (SetMin(Occupied(profile)) + SetMax(Occupied(profile))) \div 2

(* ------------------------------------------------------------------ *)
(* clipData on its own (SpecClip)                                      *)
(* ------------------------------------------------------------------ *)

\* values handed to clipData: undefined, below, at, between, at and above the
\* bounds it is handed
ClipValues == {NaN, -5, 0, 50, 100, 300, 400}

\* the bounds it is handed
ClipBounds == {-5, 0, 100, 300}

InitClip ==
    /\ script \in {Old, New}
    /\ test = "clipData"
    /\ motor = "None"
    /\ width = 0
    /\ cpuCount = 1
    /\ profile = << >>
    /\ view = None
    /\ data_to_fix \in ClipValues
    /\ lower_bound \in ClipBounds
    /\ upper_bound \in ClipBounds
    /\ Idle

\* clipData(data_to_fix, lower_bound, upper_bound)
clipData_Call ==
    /\ test = "clipData"
    /\ pc = "start"
    /\ clipped' = Append(clipped, clipData(data_to_fix, lower_bound, upper_bound))
    /\ pc' = "clipped"
    /\ UNCHANGED <<cfgVars, err, cmds, senseVars, steerVars, timeVars, poseVars,
                   dualVars, profile, region, data_to_fix, lower_bound,
                   upper_bound, laneVars>>

\* clipData applied to what clipData returned
clipData_CallAgain ==
    /\ test = "clipData"
    /\ pc = "clipped"
    /\ clipped' = Append(clipped, clipData(clipped[1], lower_bound, upper_bound))
    /\ pc' = "reclipped"
    /\ UNCHANGED <<cfgVars, err, cmds, senseVars, steerVars, timeVars, poseVars,
                   dualVars, profile, region, data_to_fix, lower_bound,
                   upper_bound, laneVars>>

NextClip ==
    \/ clipData_Call
    \/ clipData_CallAgain

SpecClip == InitClip /\ [][NextClip]_vars

\* C13: for lower_bound <= upper_bound clipData returns upper_bound for an
\* undefined value or one above upper_bound, lower_bound for one below
\* lower_bound and the value itself otherwise; the result is within the bounds
\* and clipData applied to it returns it unchanged.
C13_ClipWithinBoundsIdempotent ==
    (lower_bound <= upper_bound /\ Len(clipped) >= 1) =>
        /\ (data_to_fix = NaN \/ data_to_fix > upper_bound) => clipped[1] = upper_bound
        /\ (data_to_fix # NaN /\ data_to_fix < lower_bound) => clipped[1] = lower_bound
        /\ (data_to_fix # NaN /\ data_to_fix >= lower_bound /\ data_to_fix <= upper_bound) =>
             clipped[1] = data_to_fix
        /\ clipped[1] >= lower_bound
        /\ clipped[1] <= upper_bound
        /\ Len(clipped) >= 2 => clipped[2] = clipped[1]

\* C13 witness: an undefined value became the upper bound, and stayed there
\* when clipped again
C13_Witness ==
    /\ pc = "reclipped"
    /\ data_to_fix = NaN
    /\ lower_bound = MIN_OBSTACLE_DEPTH
    /\ upper_bound = MAX_OBSTACLE_DEPTH
    /\ clipped = <<MAX_OBSTACLE_DEPTH, MAX_OBSTACLE_DEPTH>>

(* ------------------------------------------------------------------ *)
(* DepthSensorTests.moveForwardAndStopTest: two processes (SpecDual)   *)
(* ------------------------------------------------------------------ *)

\* if multiprocessing.cpu_count() >= 2: print("Testing error ..."); return
moveForwardAndStopTest_Declines(cpus) == cpus >= 2

moveForwardAndStopTest_Return ==
    /\ script = Old
    /\ test = "moveForwardAndStopTest"
    /\ pc = "start"
    /\ moveForwardAndStopTest_Declines(cpuCount)
    /\ pc' = "returned"
    /\ UNCHANGED <<cfgVars, err, cmds, senseVars, steerVars, timeVars, poseVars,
                   dualVars, pureVars, laneVars>>

\* event = Event(); process.start(); then captureImagesUntilCloseToObstacle
moveForwardAndStopTest_Start ==
    /\ script = Old
    /\ test = "moveForwardAndStopTest"
    /\ pc = "start"
    /\ ~moveForwardAndStopTest_Declines(cpuCount)
    /\ event' = FALSE
    /\ bgpc' = "test"
    /\ EnterLoop(None)
    /\ pc' = "advance1"
    /\ UNCHANGED <<cfgVars, err, cmds, steerVars, timeVars, poseVars, pureVars,
                   laneVars>>

\* moveForwardUntilSignaled: while not event.is_set()
moveForwardUntilSignaled_Test ==
    /\ bgpc = "test"
    /\ bgpc' = IF event THEN "ended" ELSE "forward"
    /\ UNCHANGED <<cfgVars, pc, err, cmds, senseVars, steerVars, timeVars,
                   poseVars, event, pureVars, laneVars>>

\* moveForwardUntilSignaled: if motor is not None: motor.forward(FORWARD_SPEED)
moveForwardUntilSignaled_Forward ==
    /\ bgpc = "forward"
    /\ Len(cmds) < MaxCmds
    /\ cmds' = SendIfMotor(cmds, "forward")
    /\ bgpc' = "sleep"
    /\ UNCHANGED <<cfgVars, pc, err, senseVars, steerVars, timeVars, poseVars,
                   event, pureVars, laneVars>>

\* moveForwardUntilSignaled: print, time.sleep(COMMAND_SEND_PERIOD / 1000)
moveForwardUntilSignaled_Sleep ==
    /\ bgpc = "sleep"
    /\ bgpc' = "test"
    /\ UNCHANGED <<cfgVars, pc, err, cmds, senseVars, steerVars, timeVars,
                   poseVars, event, pureVars, laneVars>>

\* captureImagesUntilCloseToObstacle has returned: event.set()
moveForwardAndStopTest_Signal ==
    /\ script = Old
    /\ test = "moveForwardAndStopTest"
    /\ pc = "advance1"
    /\ ~captureImagesUntilCloseToObstacle_Continues(depthValue)
    /\ event' = TRUE
    /\ pc' = "join"
    /\ UNCHANGED <<cfgVars, err, cmds, senseVars, steerVars, timeVars, poseVars,
                   bgpc, pureVars, laneVars>>

\* seeded fault for C6: the foreground does not wait for the process
ProcessJoinReturnsAtOnce(child) == TRUE

\* process.join() returns once the process has ended
ProcessJoinReturns(child) == child = "ended"

\* process.join(); if motor is not None: motor.stop()
moveForwardAndStopTest_JoinAndStop ==
    /\ script = Old
    /\ test = "moveForwardAndStopTest"
    /\ pc = "join"
    /\ ProcessJoinReturns(bgpc)
    /\ cmds' = SendIfMotor(cmds, "stop")
    /\ pc' = "done"
    /\ UNCHANGED <<cfgVars, err, senseVars, steerVars, timeVars, poseVars,
                   dualVars, pureVars, laneVars>>

InitDual ==
    /\ script = Old
    /\ test = "moveForwardAndStopTest"
    /\ motor \in {"None", "MotorController"}
    /\ width \in 1..MaxWidth
    /\ cpuCount \in 1..MaxCpu
    /\ profile = << >>
    /\ view = None
    /\ NoClipCall
    /\ Idle

NextDual ==
    \/ moveForwardAndStopTest_Return
    \/ moveForwardAndStopTest_Start
    \/ OldCloseIter
    \/ moveForwardAndStopTest_Signal
    \/ moveForwardAndStopTest_JoinAndStop
    \/ moveForwardUntilSignaled_Test
    \/ moveForwardUntilSignaled_Forward
    \/ moveForwardUntilSignaled_Sleep

SpecDual == InitDual /\ [][NextDual]_vars

\* C6: in every interleaving of the two processes no forward command follows
\* the stop command, and the stop command is sent (the test is done) only
\* with the event set and the moveForwardUntilSignaled process ended.
C6_NoForwardAfterStop ==
    /\ \A i, j \in 1..Len(cmds) :
         (i < j /\ cmds[i] = "stop") => cmds[j] # "forward"
    /\ (pc = "done" \/ \E i \in 1..Len(cmds) : cmds[i] = "stop") =>
         (event /\ bgpc = "ended")

\* C6 witness: the process sent forward twice, ended, and stop came last
C6_Witness ==
    /\ pc = "done"
    /\ bgpc = "ended"
    /\ cmds = <<"forward", "forward", "stop">>

(* ------------------------------------------------------------------ *)
(* line_det_w_motor_controller.py: draw_lines                          *)
(* ------------------------------------------------------------------ *)

\* slopes and intercepts are floats; the model keeps them in thousandths and
\* draws the segments so that every slope is a whole number of thousandths
Milli == 1000

\* what numpy division by zero gives: (y1-y2)/0 is inf, -inf or, for 0/0, nan
PosInf == 1000000000

NegInf == -1000000000

\* np.mean(...[-30:]): the length of the slice
WINDOW == 30

\* img.shape[0] of the frames the camera delivers
FrameHeight == 480

\* segments <<x1, y1, x2, y2>> HoughLinesP may report: two rising on the right,
\* two falling on the left, one of each kind at its position gate, one at
\* slope 0.3 exactly, and vertical ones on either side and in column 0
RightSegments == {<<600, 400, 500, 300>>, <<620, 420, 580, 400>>}

LeftSegments == {<<100, 400, 200, 300>>, <<40, 400, 80, 380>>}

GateSegments == {<<500, 300, 400, 200>>, <<600, 300, 700, 200>>, <<510, 203, 500, 200>>}

VerticalSegments == {<<550, 400, 550, 300>>, <<100, 300, 100, 400>>, <<0, 300, 0, 400>>}

Segments == RightSegments \cup LeftSegments \cup GateSegments \cup VerticalSegments

\* what HoughLinesP returns for a frame: None, one segment, or a left and a
\* right segment together
Views ==
    {None} \cup {<<g>> : g \in Segments}
           \cup {<<l, r>> : l \in LeftSegments, r \in RightSegments}

Finite(v) == v \notin {NaN, PosInf, NegInf}

\* slope = (y1-y2)/(x1-x2) on numpy integers
Slope(seg) ==
    LET dx == seg[1] - seg[3]
        dy == seg[2] - seg[4]
    IN  IF dx = 0
        THEN IF dy > 0 THEN PosInf ELSE IF dy < 0 THEN NegInf ELSE NaN
        ELSE IF dx > 0 THEN (Milli * dy) \div dx
        ELSE (Milli * (-dy)) \div (-dx)

\* yintercept = y2 - (slope*x2)
YIntercept(slope, seg) ==
    IF isnan(slope) THEN NaN
    ELSE IF slope = PosInf
         THEN IF seg[3] = 0 THEN NaN ELSE NegInf
    ELSE IF slope = NegInf
         THEN IF seg[3] = 0 THEN NaN ELSE PosInf
    ELSE Milli * seg[4] - slope * seg[3]

\* if slope > 0.3
SlopeIsRight(slope) == FloatGt(slope, 3 * (Milli \div 10))

\* elif slope < -0.3
SlopeIsLeft(slope) == FloatLt(slope, -3 * (Milli \div 10))

\* seeded fault for C16: the right position gate lets x1 = 500 through
RightGateInclusive(x1) == x1 >= 500

\* if x1 > 500
RightGate(x1) == x1 > 500

\* if x1 < 600
LeftGate(x1) == x1 < 600

\* the body of draw_lines' inner loop for one segment
draw_lines_Segment(bufs, seg) ==
    LET slope == Slope(seg)
        yintercept == YIntercept(slope, seg)
    IN  IF SlopeIsRight(slope)
        THEN IF RightGate(seg[1])
             THEN [bufs EXCEPT !.rightSlope = Append(@, slope),
                               !.rightIntercept = Append(@, yintercept)]
             ELSE bufs
        ELSE IF SlopeIsLeft(slope)
        THEN IF LeftGate(seg[1])
             THEN [bufs EXCEPT !.leftSlope = Append(@, slope),
                               !.leftIntercept = Append(@, yintercept)]
             ELSE bufs
        ELSE bufs

RECURSIVE draw_lines_Loop(_, _)
\* if lines is not None: for line in lines: for x1,y1,x2,y2 in line
draw_lines_Loop(bufs, ls) ==
    IF ls = None THEN bufs
    ELSE draw_lines_Loop(draw_lines_Segment(bufs, Head(ls)), Tail(ls))

\* seeded fault for C15: the means are taken over the first 30 samples
FirstSlice(list) ==
    SubSeq(list, 1, IF Len(list) > WINDOW THEN WINDOW ELSE Len(list))

\* list[-30:]
LastSlice(list) ==
    SubSeq(list, IF Len(list) > WINDOW THEN Len(list) - WINDOW + 1 ELSE 1, Len(list))

RECURSIVE Sum(_)
Sum(list) == IF list = << >> THEN 0 ELSE Head(list) + Sum(Tail(list))

AllFinite(list) == \A i \in 1..Len(list) : Finite(list[i])

\* int(a / b) for b # 0: the quotient with its fraction dropped
Trunc(a, b) ==
    IF (a < 0) = (b < 0) THEN Abs(a) \div Abs(b) ELSE -(Abs(a) \div Abs(b))

\* np.mean(slice) is a number: not nan (no samples, or nan among them), not
\* infinite (an infinite sample among them)
MeanIsNumber(slice) == slice # << >> /\ AllFinite(slice)

\* int((yref - np.mean(intercepts)) / np.mean(slopes)), yref in thousandths:
\* the exception int() raises, or the value.  With a mean that is not a number
\* the quotient is nan (an infinite slope comes with an infinite or undefined
\* intercept of its own) and int(nan) raises ValueError; a zero mean slope
\* gives an infinite quotient and int(inf) raises OverflowError
line_x(yref, slopes, intercepts) ==
    IF ~(MeanIsNumber(slopes) /\ MeanIsNumber(intercepts))
    THEN [raises |-> "ValueError", value |-> 0]
    ELSE IF Sum(slopes) = 0
    THEN [raises |-> IF yref * Len(slopes) = Sum(intercepts)
                     THEN "ValueError" ELSE "OverflowError",
          value |-> 0]
    ELSE [raises |-> "none",
          value |-> Trunc(yref * Len(slopes) - Sum(intercepts), Sum(slopes))]

\* 0.65*img.shape[0], in thousandths
NearReference(height) == 65 * (Milli \div 100) * height

\* seeded fault for C18: left_line_x1 and right_line_x1 start at 0
draw_lines_TryFromZero(left, right) ==
    IF left.raises # "none" THEN <<Some(0), Some(0)>>
    ELSE IF right.raises # "none" THEN <<Some(left.value), Some(0)>>
    ELSE <<Some(left.value), Some(right.value)>>

\* left_line_x1 = None, right_line_x1 = None, then the try block as far as it
\* gets: the left line first, the right line after it
draw_lines_Try(left, right) ==
    IF left.raises # "none" THEN <<None, None>>
    ELSE IF right.raises # "none" THEN <<Some(left.value), None>>
    ELSE <<Some(left.value), Some(right.value)>>

\* draw_lines(img, lines): the lists after the loop, the slices averaged, and
\* [left_line_x1, right_line_x1] as the try block leaves them; raises names
\* the exception that escapes the except ValueError clause
draw_lines(bufs, ls, height) ==
    LET after == draw_lines_Loop(bufs, ls)
        slices == [leftSlope |-> LastSlice(after.leftSlope),
                   leftIntercept |-> LastSlice(after.leftIntercept),
                   rightSlope |-> LastSlice(after.rightSlope),
                   rightIntercept |-> LastSlice(after.rightIntercept)]
        left == line_x(NearReference(height), slices.leftSlope, slices.leftIntercept)
        right == line_x(NearReference(height), slices.rightSlope, slices.rightIntercept)
    IN  [bufs |-> after,
         averaged |-> slices,
         coors |-> draw_lines_Try(left, right),
         raises |-> IF left.raises = "OverflowError" THEN left.raises
                    ELSE IF left.raises = "none" /\ right.raises = "OverflowError"
                    THEN right.raises
                    ELSE "none"]

\* the four module-level lists as one value
Buffers ==
    [rightSlope |-> rightSlope, rightIntercept |-> rightIntercept,
     leftSlope |-> leftSlope, leftIntercept |-> leftIntercept]

\* the camera's view stays as it is or, once in a run, changes
NextView(v) ==
    /\ \/ v = view
       \/ ~switched /\ v # view
    /\ switched' = (switched \/ v # view)
    /\ view' = v

\* the lists, slices and result of a draw_lines call become the program's
StoreDrawLines(r, ls) ==
    /\ rightSlope' = r.bufs.rightSlope
    /\ rightIntercept' = r.bufs.rightIntercept
    /\ leftSlope' = r.bufs.leftSlope
    /\ leftIntercept' = r.bufs.leftIntercept
    /\ lines' = ls
    /\ averaged' = r.averaged
    /\ coors' = r.coors

(* ------------------------------------------------------------------ *)
(* line_det_w_motor_controller.py: the frame loop and its throttle     *)
(* ------------------------------------------------------------------ *)

\* the directions hough_lines can decide on
Directions == {"up", "left", "right"}

\* sendMotorCommand: time.time_ns() > lastCommandTime + (ONE_SECOND_DELAY*0.1)
sendMotorCommand_MaySend(now, lastCommandTime) ==
    now > lastCommandTime + (ONE_SECOND_DELAY \div 10)

\* sendMotorCommand: the actuator call each command string leads to
sendMotorCommand_Call(command) ==
    IF command = "up" THEN <<"forward">>
    ELSE IF command = "down" THEN <<"backward">>
    ELSE IF command = "left" THEN <<"turnLeft">>
    ELSE IF command = "right" THEN <<"turnRight">>
    ELSE IF command = "stop" THEN <<"stop">>
    ELSE << >>

\* sendMotorCommand(motorObj, command, lastCommandTime), the clock reading now
\* at its test and later at its assignment: the calls made and the time returned
sendMotorCommand(command, lastCommandTime, now, later) ==
    IF sendMotorCommand_MaySend(now, lastCommandTime)
    THEN [calls |-> sendMotorCommand_Call(command), lastCommandTime |-> later]
    ELSE [calls |-> << >>, lastCommandTime |-> lastCommandTime]

\* seeded fault for C25: a difference of exactly the padding already turns
hough_lines_DirectionAtPadding(c) ==
    IF c[1] # None /\ c[2] # None
    THEN IF c[1][1] <= (635 - c[2][1]) - 20 THEN "left"
         ELSE IF c[1][1] >= (635 - c[2][1]) + 20 THEN "right"
         ELSE "up"
    ELSE "up"

\* hough_lines: the direction decided from what draw_lines returned
hough_lines_Direction(c) ==
    IF c[1] # None /\ c[2] # None
    THEN LET left_diff == c[1][1]
             right_diff == 635 - c[2][1]
             padding == 20
         IN  IF right_diff - padding < left_diff /\ left_diff < right_diff + padding
             THEN "up"
             ELSE IF left_diff < right_diff - padding THEN "left"
             ELSE IF left_diff > right_diff + padding THEN "right"
             ELSE "up"
    ELSE "up"

\* right segments whose line, against the left segment <<100, 400, 200, 300>>,
\* leaves a difference of exactly the padding, one either way
PaddingSegments == {<<595, 480, 515, 400>>, <<595, 440, 515, 360>>}

\* the views of a run of the whole frame loop: no lines, a left and a right
\* segment together, or one segment of either side
ThrottleViews ==
    {None} \cup {<<l, r>> : l \in LeftSegments, r \in RightSegments}
           \cup {<<l, r>> : l \in LeftSegments, r \in PaddingSegments}
           \cup {<<g>> : g \in {<<100, 400, 200, 300>>, <<600, 400, 500, 300>>}}

\* one pass of the while(cap.isOpened()) loop: processImage, hough_lines, which
\* has draw_lines ingest the view's lines, decides the direction, reads the
\* clock into initialTime and hands it to sendMotorCommand as the time of the
\* last command
processImage ==
    /\ script = Lane
    /\ test = "processImage"
    /\ pc = "start"
    /\ LET drawn == draw_lines(Buffers, view, FrameHeight)
           d == hough_lines_Direction(drawn.coors)
       IN  /\ Len(drawn.bufs.rightSlope) <= MaxLoopSamples
           /\ Len(drawn.bufs.leftSlope) <= MaxLoopSamples
           /\ StoreDrawLines(drawn, view)
           /\ IF drawn.raises # "none"
              THEN /\ Raise(drawn.raises)
                   /\ UNCHANGED <<cmds, direction, timeVars>>
              ELSE /\ \E d0 \in ClockSteps, d1 \in ClockSteps, d2 \in ClockSteps :
                        LET t0 == clock + d0
                            now == t0 + d1
                            later == IF sendMotorCommand_MaySend(now, t0)
                                     THEN now + d2 ELSE now
                            r == sendMotorCommand(d, t0, now, later)
                        IN  /\ later <= MaxClock
                            /\ direction' = d
                            /\ clock' = later
                            /\ initialTime' = r.lastCommandTime
                            /\ cmds' = cmds \o r.calls
                            /\ attempt' = Attempted(t0, now, r.calls # << >>,
                                                    r.lastCommandTime)
                            /\ sentAt' = IF r.calls # << >> THEN Append(sentAt, now)
                                         ELSE sentAt
                   /\ UNCHANGED <<pc, err>>
    /\ UNCHANGED <<cfgVars, senseVars, steerVars, poseVars, dualVars, pureVars,
                   view, switched>>

\* cv2.waitKey(1) & 0xFF == ord('q'): break
lineDetect_Quit ==
    /\ script = Lane
    /\ pc = "start"
    /\ pc' = "done"
    /\ UNCHANGED <<cfgVars, err, cmds, senseVars, steerVars, timeVars, poseVars,
                   dualVars, pureVars, laneVars>>

(* ------------------------------------------------------------------ *)
(* draw_lines on its own (SpecLane)                                    *)
(* ------------------------------------------------------------------ *)

InitLane ==
    /\ script = Lane
    /\ test = "draw_lines"
    /\ motor = "MotorController"
    /\ width = 1
    /\ cpuCount = 1
    /\ profile = << >>
    /\ view \in Views
    /\ NoClipCall
    /\ Idle

\* draw_lines(line_img, lines) on the lines of the camera's view
draw_lines_Call ==
    /\ script = Lane
    /\ test = "draw_lines"
    /\ pc = "start"
    /\ \E v \in Views :
         LET drawn == draw_lines(Buffers, v, FrameHeight)
         IN  /\ NextView(v)
             /\ Len(drawn.bufs.rightSlope) <= MaxSamples
             /\ Len(drawn.bufs.leftSlope) <= MaxSamples
             /\ StoreDrawLines(drawn, v)
             /\ IF drawn.raises # "none"
                THEN Raise(drawn.raises)
                ELSE UNCHANGED <<pc, err>>
    /\ UNCHANGED <<cfgVars, cmds, senseVars, steerVars, timeVars, poseVars,
                   dualVars, pureVars, direction>>

NextLane ==
    \/ draw_lines_Call

SpecLane == InitLane /\ [][NextLane]_vars

\* C14 as stated: none of the four stored lists ever holds more than 30
\* samples.
C14_ListsHoldAtMostWindow ==
    /\ Len(rightSlope) <= WINDOW
    /\ Len(rightIntercept) <= WINDOW
    /\ Len(leftSlope) <= WINDOW
    /\ Len(leftIntercept) <= WINDOW

\* the most recent min(n, 30) entries of a list of n, in arrival order
MostRecent(list) ==
    LET n == IF Len(list) < WINDOW THEN Len(list) ELSE WINDOW
    IN  [i \in 1..n |-> list[Len(list) - n + i]]

IsRightSample(seg) ==
    /\ seg[1] # seg[3]
    /\ IF seg[1] > seg[3]
       THEN 10 * (seg[2] - seg[4]) > 3 * (seg[1] - seg[3])
       ELSE 10 * (seg[2] - seg[4]) < 3 * (seg[1] - seg[3])
    /\ seg[1] > 500

\* (y1-y2)/(x1-x2) < -3/10 and x1 < 600, for x1 # x2
IsLeftSample(seg) ==
    /\ seg[1] # seg[3]
    /\ IF seg[1] > seg[3]
       THEN 10 * (seg[2] - seg[4]) < -3 * (seg[1] - seg[3])
       ELSE 10 * (seg[2] - seg[4]) > -3 * (seg[1] - seg[3])
    /\ seg[1] < 600

\* C16: a draw_lines call on segments with x1 # x2 appends one sample to the
\* right lists for each segment with slope > 0.3 and x1 > 500, one to the left
\* lists for each segment with slope < -0.3 and x1 < 600, and nothing else; no
\* segment counts for both sides, and a call without lines appends nothing.
C16_OneSamplePerClassifiedSegment ==
    [][(test = "draw_lines" /\ \A i \in 1..Len(lines') : lines'[i][1] # lines'[i][3]) =>
         /\ Len(rightSlope') =
              Len(rightSlope) + Cardinality({i \in 1..Len(lines') : IsRightSample(lines'[i])})
         /\ Len(leftSlope') =
              Len(leftSlope) + Cardinality({i \in 1..Len(lines') : IsLeftSample(lines'[i])})
         /\ Len(rightIntercept') = Len(rightSlope')
         /\ Len(leftIntercept') = Len(leftSlope')
         /\ \A i \in 1..Len(lines') :
              ~(IsRightSample(lines'[i]) /\ IsLeftSample(lines'[i]))]_vars

\* C16 witness: after a right sample a rising segment with x1 = 500, at the
\* right position gate, was handed in and the lists stayed as they were
C16_Witness ==
    /\ test = "draw_lines"
    /\ lines = <<(<<500, 300, 400, 200>>)>>
    /\ Len(rightSlope) = 1
    /\ leftSlope = << >>

\* C17 as stated: no draw_lines call raises, and no sample in the lists comes
\* from a segment with x1 = x2 (such a sample has an infinite slope).
C17_VerticalSegmentDiscarded ==
    /\ err = "none"
    /\ AllFinite(rightSlope) /\ AllFinite(rightIntercept)
    /\ AllFinite(leftSlope) /\ AllFinite(leftIntercept)

\* C18: whenever a side's lists are empty, draw_lines has returned None for
\* that side.
C18_EmptySideIsNone ==
    /\ leftSlope = << >> => coors[1] = None
    /\ rightSlope = << >> => coors[2] = None

\* C18 witness: left samples only; the left line is a number and the right
\* one is None
C18_Witness ==
    /\ test = "draw_lines"
    /\ leftSlope # << >>
    /\ rightSlope = << >>
    /\ coors[1] # None
    /\ coors[2] = None

(* ------------------------------------------------------------------ *)
(* The two throttled senders (SpecThrottle)                            *)
(* ------------------------------------------------------------------ *)

InitThrottle ==
    /\ \/ /\ script = New
          /\ test = "moveForwardAndStopTest"
          /\ motor \in {"None", "MotorController"}
          /\ width \in 1..MaxWidth
          /\ view = None
       \/ /\ script = Lane
          /\ test = "processImage"
          /\ motor = "MotorController"
          /\ width = 1
          /\ view \in ThrottleViews
    /\ cpuCount = 1
    /\ profile = << >>
    /\ NoClipCall
    /\ Idle

NextThrottle ==
    \/ moveForwardAndStopTestNew_Start
    \/ NewCloseIter
    \/ moveForwardAndStopTestNew_Finish
    \/ processImage
    \/ lineDetect_Quit

SpecThrottle == InitThrottle /\ [][NextThrottle]_vars

MIN_INTERVAL == ONE_SECOND_DELAY \div 10

\* C4: the times at which the throttled attempts of a run sent are at least
\* MIN_INTERVAL apart, and the first throttled attempt of a run with an
\* actuator sent.
C4_SpacedAndFirstAttemptSends ==
    /\ \A i \in 1..(Len(sentAt) - 1) : sentAt[i + 1] - sentAt[i] >= MIN_INTERVAL
    /\ (motor # "None" /\ attempt.count >= 1) => attempt.firstSent

C20_LaneThrottleLetsCommandsThrough ==
    (script = Lane /\ attempt.count >= 2
                   /\ attempt.now - attempt.firstAt > MIN_INTERVAL) =>
        cmds # << >>

\* C21 as stated: with at least two execution units moveForwardAndStopTest
\* runs the maneuver, and it declines (returns at once, nothing started and
\* nothing sent) only with fewer than two.
C21_RunsWithTwoUnits ==
    (script = Old /\ test = "moveForwardAndStopTest") =>
        /\ cpuCount >= 2 => pc # "returned"
        /\ pc = "returned" => (cpuCount < 2 /\ bgpc = "notStarted" /\ cmds = << >>)
        /\ cpuCount < 2 => (bgpc = "notStarted" /\ pc \in {"start", "returned"})

\* positions of the foreground code inside one of the two frame loops
LoopPcs == {"advance1", "advance2", "clear"}

\* the while condition of the loop the foreground code is in
LoopContinues(p, dv) ==
    IF p = "clear"
    THEN IF script = Old THEN captureImagesUntilClear_Continues(dv)
         ELSE captureImagesUntilClearNew_Continues(dv)
    ELSE IF script = Old THEN captureImagesUntilCloseToObstacle_Continues(dv)
         ELSE captureImagesUntilCloseToObstacleNew_Continues(dv)

\* C22 as stated: every invocation of captureImagesUntilCloseToObstacle and
\* of captureImagesUntilClear starts in a state that does not satisfy its exit
\* condition, and whenever it terminates, by return or by exception, the
\* last thing it did was evaluate a frame it grabbed itself.
C22_TerminatesOnOwnFrame ==
    [][(script = Old \/ script = New) =>
         /\ (pc' \in LoopPcs /\ pc' # pc) =>
              (~grabbed' /\ LoopContinues(pc', depthValue'))
         /\ (pc \in LoopPcs /\ pc' # pc) =>
              (grabbed /\ ~LoopContinues(pc, depthValue))]_vars

\* the commands steer-around-obstacle sends from start to end, turning to t
SteerOrder(t) ==
    <<"forward", "stop", IF t = "right" THEN "turnRight" ELSE "turnLeft",
      "stop", "forward", "stop">>

\* how many of them have been sent when the foreground code is at p
SteerSent(p) ==
    IF p = "start" THEN 0
    ELSE IF p = "advance1" THEN 1
    ELSE IF p = "choose" THEN 2
    ELSE IF p = "clear" THEN 3
    ELSE IF p = "advance2" THEN 5
    ELSE 6

\* C23: in steerAwayFromObstacleTest the actuator receives forward, stop,
\* turn(chosen direction), stop, forward, stop in this order and nothing
\* else; the first stop (and so the turn) is sent only once the approach loop
\* has fired on a grabbed frame, the second stop and forward only once the
\* clear loop has fired on a grabbed frame, and stop is the last command.
C23_SteerCommandOrder ==
    [][test = "steerAwayFromObstacleTest" =>
         /\ motor # "None" => cmds' = SubSeq(SteerOrder(turn'), 1, SteerSent(pc'))
         /\ motor = "None" => cmds' = << >>
         /\ (pc = "advance1" /\ pc' # pc) =>
              (pc' = "choose" /\ grabbed /\ depthValue[1] <= MIN_THRESHOLD_DISTANCE)
         /\ (pc = "clear" /\ pc' # pc) =>
              (pc' = "advance2" /\ grabbed /\ depthValue[1] >= MAX_THRESHOLD_DISTANCE)
         /\ (pc = "advance2" /\ pc' # pc) =>
              (pc' = "done" /\ grabbed /\ depthValue[1] <= MIN_THRESHOLD_DISTANCE)]_vars

\* C23 witness: the maneuver has ended after a right turn, all six commands sent
C23_Witness ==
    /\ test = "steerAwayFromObstacleTest"
    /\ pc = "done"
    /\ turn = "right"
    /\ cmds = <<"forward", "stop", "turnRight", "stop", "forward", "stop">>

\* C24 as stated: after a draw_lines call the left line is present whenever
\* the left lists hold samples and the right line whenever the right lists
\* do, whatever the other side holds (samples of vertical segments, which make
\* a side's own mean infinite, set aside).
C24_EachSideFromItsOwnLists ==
    (test = "draw_lines" /\ AllFinite(leftSlope) /\ AllFinite(leftIntercept)
                         /\ AllFinite(rightSlope) /\ AllFinite(rightIntercept)) =>
        /\ leftSlope # << >> => coors[1] # None
        /\ rightSlope # << >> => coors[2] # None

\* C25: after every frame of the lane follower direction is one of up, left,
\* right: left exactly when both lines are present and leftX < (635 - rightX)
\* - 20, right exactly when both are present and leftX > (635 - rightX) + 20,
\* and up otherwise, so with a line absent and with a difference of exactly 20.
C25_DirectionFromBothLines ==
    (script = Lane /\ test = "processImage") =>
        /\ direction \in {"up", "left", "right"}
        /\ direction = "left" <=>
             (coors[1] # None /\ coors[2] # None
                /\ coors[1][1] < (635 - coors[2][1]) - 20)
        /\ direction = "right" <=>
             (coors[1] # None /\ coors[2] # None
                /\ coors[1][1] > (635 - coors[2][1]) + 20)

\* C25 witness: both lines present, the left one exactly 20 short of the
\* right one's distance, and the robot is sent forward
C25_Witness ==
    /\ script = Lane
    /\ coors[1] # None /\ coors[2] # None
    /\ coors[1][1] = (635 - coors[2][1]) - 20
    /\ direction = "up"
    /\ cmds # << >>
    /\ cmds[Len(cmds)] = "forward"

\* C26: when a loop of either file has just grabbed a frame in which the
\* locator found no region, the depth it tests is MAX_OBSTACLE_DEPTH, sampled
\* at the frame's centre column; the approach loops do not end on such a
\* frame and the clear loops do not run another iteration after it.
C26_NoRegionReadsFarBound ==
    [][(pc \in LoopPcs /\ grabbed /\ ~found) =>
         /\ depthValue = Some(MAX_OBSTACLE_DEPTH)
         /\ (script = New \/ pc # "clear") => x = imageWidth \div 2
         /\ pc \in {"advance1", "advance2"} => pc' \in {pc, "raised"}
         /\ pc = "clear" => pc' # pc]_vars

\* C26 witness: the approach loop has grabbed a three-column frame without a
\* region and goes on
C26_Witness ==
    /\ pc = "advance1"
    /\ grabbed
    /\ ~found
    /\ imageWidth = 3
    /\ x = 1
    /\ depthValue = Some(MAX_OBSTACLE_DEPTH)

\* C27 as stated: whenever the locator of either file returns a region, the
\* conditioned depth at its centerOfObstacleX is below MAX_OBSTACLE_DEPTH (the
\* centre is an occupied column), and so is the depth then sampled there.
C27_CentreIsOccupied ==
    (pc \in {"located", "sampled"} /\ region # None) =>
        /\ region[1].centerOfObstacleX \in Occupied(profile)
        /\ pc = "sampled" => depthValue[1] < MAX_OBSTACLE_DEPTH

====
